---- MODULE Spec2Model ----
(***************************************************************************)
(* The Mandelbrot plotter of examples/mandelbrot/src/main.rs: the          *)
(* coordinate mapper pixel_to_complex, the escape-time kernel escape_time, *)
(* the stripe renderer render and the scheduler in main, which cuts the    *)
(* pixel buffer with chunks_mut, spawns one scoped thread per chunk, joins *)
(* them at the end of crossbeam::scope and hands the buffer to             *)
(* write_image.                                                            *)
(*                                                                         *)
(* f64 values are modelled as exact rationals <<numerator, denominator>>   *)
(* in lowest terms with a positive denominator: the arithmetic of the      *)
(* model is exact, rounding is not modelled.                               *)
(***************************************************************************)
EXTENDS Integers, Sequences, FiniteSets

VARIABLES bounds, threads, upper_left, lower_right, pixels_buffer, writers,
          pc, next, worker, sink, aborts, call

vars == <<bounds, threads, upper_left, lower_right, pixels_buffer, writers,
          pc, next, worker, sink, aborts, call>>

mainVars == <<bounds, threads, upper_left, lower_right, pixels_buffer, writers,
              pc, next, worker, sink, aborts>>

(***************************************************************************)
(* Bounds of the model.                                                    *)
(***************************************************************************)
MaxWidth == 2

MaxHeight == 5

MaxThreads == 3

MaxAborts == 1

MaxLimit == 3

MaxCoord == 5

(***************************************************************************)
(* Exact rational arithmetic standing for f64.                             *)
(***************************************************************************)
Abs(n) == IF n < 0 THEN -n ELSE n

RECURSIVE GCD(_, _)
GCD(a, b) == IF b = 0 THEN a ELSE GCD(b, a % b)

Reduce(n, d) ==
    LET s == IF d < 0 THEN -1 ELSE 1
        g == GCD(Abs(n), Abs(d))
    IN  <<(s * n) \div g, (s * d) \div g>>

R(n) == <<n, 1>>

\* Same denominators are added directly, others over the least common
\* denominator.
RAdd(x, y) ==
    IF x[2] = 1 /\ y[2] = 1
    THEN <<x[1] + y[1], 1>>
    ELSE LET g == GCD(x[2], y[2])
             l == (x[2] \div g) * y[2]
         IN  Reduce(x[1] * (l \div x[2]) + y[1] * (l \div y[2]), l)

RNeg(x) == <<-x[1], x[2]>>

RSub(x, y) == RAdd(x, RNeg(y))

RMul(x, y) ==
    IF x[2] = 1 /\ y[2] = 1
    THEN <<x[1] * y[1], 1>>
    ELSE LET a == Reduce(x[1], y[2])
             b == Reduce(y[1], x[2])
         IN  <<a[1] * b[1], a[2] * b[2]>>

RDiv(x, y) == RMul(x, Reduce(y[2], y[1]))

RGt(x, y) == x[1] * y[2] > y[1] * x[2]

Complex(re, im) == [re |-> re, im |-> im]

CAdd(a, b) == Complex(RAdd(a.re, b.re), RAdd(a.im, b.im))

CMul(a, b) ==
    Complex(RSub(RMul(a.re, b.re), RMul(a.im, b.im)),
            RAdd(RMul(a.re, b.im), RMul(a.im, b.re)))

norm_sqr(z) == RAdd(RMul(z.re, z.re), RMul(z.im, z.im))

None == <<>>

Some(x) == <<x>>

(***************************************************************************)
(* escape_time, lines 125-135.  A loop state is the current z, the loop    *)
(* index i and the value returned so far (None while the loop runs).       *)
(* escape_body is one iteration of `for i in 0..limit`; escape_loop runs n *)
(* iterations, splitting the run in two halves so that the evaluation      *)
(* stays shallow.  The singleton-set binders evaluate a value once.        *)
(***************************************************************************)
Only(S) == CHOOSE x \in S : TRUE

\* Mutant: the test is |z|^2 >= 4.
EscapesAtLeast(n) == ~RGt(R(4), n)

EscapesAbove(n) == RGt(n, R(4))

escape_body(s, c) ==
    IF s.ret # None
    THEN s
    ELSE Only({ IF EscapesAbove(norm_sqr(zz))
                THEN [s EXCEPT !.ret = Some(s.i)]
                ELSE [z |-> zz, i |-> s.i + 1, ret |-> None]
                : zz \in {CAdd(CMul(s.z, s.z), c)} })

RECURSIVE escape_loop(_, _, _)
escape_loop(s, c, n) ==
    IF n = 0 THEN s
    ELSE IF n = 1 THEN escape_body(s, c)
    ELSE Only({ escape_loop(m, c, n - n \div 2)
                : m \in {escape_loop(s, c, n \div 2)} })

escape_time(c, limit) ==
    escape_loop([z |-> Complex(R(0), R(0)), i |-> 0, ret |-> None], c, limit).ret

(***************************************************************************)
(* pixel_to_complex.                                                       *)
(***************************************************************************)
\* Mutant: the imaginary axis is not inverted.
pixel_to_complex_noflip(bnds, pixel, ul, lr) ==
    LET width == RSub(lr.re, ul.re)
        height == RSub(ul.im, lr.im)
        col == R(pixel[1])
        row == R(pixel[2])
        img_width == R(bnds[1])
        img_height == R(bnds[2])
    IN  Complex(RAdd(ul.re, RDiv(RMul(col, width), img_width)),
                RAdd(ul.im, RDiv(RMul(row, height), img_height)))

pixel_to_complex(bnds, pixel, ul, lr) ==
    LET width == RSub(lr.re, ul.re)
        height == RSub(ul.im, lr.im)
        col == R(pixel[1])
        row == R(pixel[2])
        img_width == R(bnds[1])
        img_height == R(bnds[2])
    IN  Complex(RAdd(ul.re, RDiv(RMul(col, width), img_width)),
                RSub(ul.im, RDiv(RMul(row, height), img_height)))

(***************************************************************************)
(* main, lines 42-52: the buffer, the worker count and the stripes.        *)
(***************************************************************************)
IterationLimit == 255

BufferLen == bounds[1] * bounds[2]

\* Mutant: the rounded-up quotient.
rows_per_stripe_ceil == (bounds[2] + threads - 1) \div threads

rows_per_stripe == bounds[2] \div threads + 1

chunk_size == rows_per_stripe * bounds[1]

\* slice::chunks_mut(chunk_size): consecutive chunks of chunk_size elements,
\* the last one holding what remains.
NumStripes == (BufferLen + chunk_size - 1) \div chunk_size

Min(a, b) == IF a < b THEN a ELSE b

Stripe(i) ==
    [start |-> i * chunk_size,
     len   |-> Min(chunk_size, BufferLen - i * chunk_size)]

StripeIds == 0 .. (NumStripes - 1)

(***************************************************************************)
(* main, lines 55-60: what the loop body computes for stripe i.            *)
(***************************************************************************)
top(i) == rows_per_stripe * i

\* Mutant: every stripe is taken to be full.
height_full(i) == rows_per_stripe

height(i) == Stripe(i).len \div bounds[1]

\* Mutant: the bounds of a full stripe.
stripe_bounds_full(i) == <<bounds[1], rows_per_stripe>>

stripe_bounds(i) == <<bounds[1], height(i)>>

stripe_upper_left(i) ==
    pixel_to_complex(bounds, <<0, top(i)>>, upper_left, lower_right)

\* Mutant: the corner of a full stripe.
stripe_lower_right_full(i) ==
    pixel_to_complex(bounds, <<bounds[1], top(i) + rows_per_stripe>>,
                     upper_left, lower_right)

stripe_lower_right(i) ==
    pixel_to_complex(bounds, <<bounds[1], top(i) + height(i)>>,
                     upper_left, lower_right)

(***************************************************************************)
(* The inputs main receives from the command line and from num_cpus.       *)
(***************************************************************************)
\* <<x0, y0, step>>: the upper left corner and the distance between two
\* neighbouring pixels; the lower right corner follows from the bounds.
Views == {<<-1, 1, 1>>, <<-2, 2, 2>>}

NoCall == [fn |-> "none", args |-> <<>>, result |-> None]

Init ==
    /\ \E w \in 1 .. MaxWidth, h \in 1 .. MaxHeight, v \in Views :
          /\ bounds = <<w, h>>
          /\ upper_left = Complex(R(v[1]), R(v[2]))
          /\ lower_right = Complex(R(v[1] + w * v[3]), R(v[2] - h * v[3]))
          /\ pixels_buffer = [k \in 0 .. (w * h - 1) |-> 0]
          /\ writers = [k \in 0 .. (w * h - 1) |-> <<>>]
    /\ threads \in 1 .. MaxThreads
    /\ pc = "spawn"
    /\ next = 0
    /\ worker = <<>>
    /\ sink = None
    /\ aborts = 0
    /\ call = NoCall

(***************************************************************************)
(* main, lines 54-65: one iteration of the spawning loop.                  *)
(***************************************************************************)
Spawn ==
    /\ pc = "spawn"
    /\ next < NumStripes
    /\ worker' = Append(worker,
          [st |-> "spawned", stripe |-> Stripe(next),
           bounds |-> stripe_bounds(next),
           upper_left |-> stripe_upper_left(next),
           lower_right |-> stripe_lower_right(next),
           row |-> 0, column |-> 0, cause |-> "none"])
    /\ next' = next + 1
    /\ pc' = IF next + 1 = NumStripes THEN "join" ELSE "spawn"
    /\ UNCHANGED <<bounds, threads, upper_left, lower_right, pixels_buffer,
                   writers, sink, aborts, call>>

(***************************************************************************)
(* render, line 185: the precondition assertion.  Worker i of the source   *)
(* is worker[i + 1] here (sequences start at 1).                           *)
(***************************************************************************)
Precondition(w) == w.stripe.len = w.bounds[1] * w.bounds[2]

RenderAssert(i) ==
    /\ i \in 1 .. Len(worker)
    /\ worker[i].st = "spawned"
    /\ worker' = [worker EXCEPT ![i] =
          IF ~Precondition(worker[i])
          THEN [@ EXCEPT !.st = "panicked", !.cause = "assert"]
          ELSE IF worker[i].bounds[1] = 0 \/ worker[i].bounds[2] = 0
               THEN [@ EXCEPT !.st = "done"]
               ELSE [@ EXCEPT !.st = "rendering"]]
    /\ UNCHANGED <<bounds, threads, upper_left, lower_right, pixels_buffer,
                   writers, pc, next, sink, aborts, call>>

(***************************************************************************)
(* render, lines 187-196: one iteration of the inner loop.                 *)
(***************************************************************************)
\* Mutant: the row is not scaled by the width.
PixelIndex_unscaled(w) == w.row + w.column

PixelIndex(w) == w.row * w.bounds[1] + w.column

PixelPoint(w) ==
    pixel_to_complex(w.bounds, <<w.column, w.row>>, w.upper_left, w.lower_right)

Intensity(point) ==
    LET e == escape_time(point, IterationLimit)
    IN  IF e = None THEN 0 ELSE 255 - (e[1] % 256)

Advance(w) ==
    IF w.column + 1 < w.bounds[1]
    THEN [w EXCEPT !.column = w.column + 1]
    ELSE IF w.row + 1 < w.bounds[2]
         THEN [w EXCEPT !.row = w.row + 1, !.column = 0]
         ELSE [w EXCEPT !.st = "done"]

RenderPixel(i) ==
    /\ i \in 1 .. Len(worker)
    /\ worker[i].st = "rendering"
    /\ LET w == worker[i]
           k == PixelIndex(w)
       IN  IF k >= w.stripe.len
           THEN /\ worker' = [worker EXCEPT ![i] =
                                 [@ EXCEPT !.st = "panicked", !.cause = "index"]]
                /\ UNCHANGED <<pixels_buffer, writers>>
           ELSE /\ pixels_buffer' =
                      [pixels_buffer EXCEPT ![w.stripe.start + k] =
                                                Intensity(PixelPoint(w))]
                /\ writers' = [writers EXCEPT ![w.stripe.start + k] =
                                                Append(@, i - 1)]
                /\ worker' = [worker EXCEPT ![i] = Advance(w)]
    /\ UNCHANGED <<bounds, threads, upper_left, lower_right, pc, next, sink,
                   aborts, call>>

(***************************************************************************)
(* A worker thread that dies for a reason outside render's own code (the   *)
(* closure of lines 62-64 unwinding): the case crossbeam::scope reports    *)
(* as Err.                                                                 *)
(***************************************************************************)
Abort(i) ==
    /\ i \in 1 .. Len(worker)
    /\ worker[i].st \in {"spawned", "rendering"}
    /\ aborts < MaxAborts
    /\ aborts' = aborts + 1
    /\ worker' = [worker EXCEPT ![i] =
                     [@ EXCEPT !.st = "panicked", !.cause = "abort"]]
    /\ UNCHANGED <<bounds, threads, upper_left, lower_right, pixels_buffer,
                   writers, pc, next, sink, call>>

(***************************************************************************)
(* main, lines 53-67: crossbeam::scope returns once every spawned thread   *)
(* has been joined, with Err when one of them panicked; expect turns Err   *)
(* into a panic of main.                                                   *)
(***************************************************************************)
Terminated(w) == w.st \in {"done", "panicked"}

\* Mutant: the scope waits for one thread only.
AllJoined_first == \E i \in 1 .. Len(worker) : Terminated(worker[i])

AllJoined == \A i \in 1 .. Len(worker) : Terminated(worker[i])

\* Mutant: the result of the scope is ignored.
ScopeResult_ignored == "Ok"

ScopeResult ==
    IF \E i \in 1 .. Len(worker) : worker[i].st = "panicked"
    THEN "Err" ELSE "Ok"

ScopeJoin ==
    /\ pc = "join"
    /\ AllJoined
    /\ pc' = IF ScopeResult = "Ok" THEN "write" ELSE "aborted"
    /\ UNCHANGED <<bounds, threads, upper_left, lower_right, pixels_buffer,
                   writers, next, worker, sink, aborts, call>>

(***************************************************************************)
(* main, line 70: write_image receives the buffer; an I/O error makes      *)
(* expect panic.                                                           *)
(***************************************************************************)
write_image ==
    /\ pc = "write"
    /\ sink' = Some(pixels_buffer)
    /\ \E ok \in BOOLEAN : pc' = IF ok THEN "done" ELSE "aborted"
    /\ UNCHANGED <<bounds, threads, upper_left, lower_right, pixels_buffer,
                   writers, next, worker, aborts, call>>

Next ==
    \/ Spawn
    \/ \E i \in 1 .. MaxThreads : RenderAssert(i)
    \/ \E i \in 1 .. MaxThreads : RenderPixel(i)
    \/ \E i \in 1 .. MaxThreads : Abort(i)
    \/ ScopeJoin
    \/ write_image

Spec == Init /\ [][Next]_vars

(***************************************************************************)
(* The pure functions on their own: one call of pixel_to_complex           *)
(* (SpecMap) or of escape_time (SpecEsc) on inputs drawn at the start.     *)
(* The variables of main stay idle.                                        *)
(***************************************************************************)
MainIdle ==
    /\ bounds = <<1, 1>>
    /\ threads = 1
    /\ upper_left = Complex(R(-1), R(1))
    /\ lower_right = Complex(R(1), R(-1))
    /\ pixels_buffer = <<>>
    /\ writers = <<>>
    /\ pc = "idle"
    /\ next = 0
    /\ worker = <<>>
    /\ sink = None
    /\ aborts = 0

Half(n) == Reduce(n, 2)

TestBounds == <<100, 100>>

TestPixel == <<25, 75>>

MapBounds ==
    {<<w, h>> : w \in 1 .. (MaxWidth + 1), h \in 1 .. MaxHeight} \cup {TestBounds}

MapPixels(b) ==
    IF b = TestBounds
    THEN {<<0, 0>>, TestPixel, <<50, 50>>, <<99, 99>>, TestBounds}
    ELSE {<<c, r>> : c \in 0 .. b[1], r \in 0 .. b[2]}

MapUpperLefts ==
    {Complex(R(-1), R(1)), Complex(R(-2), R(2)), Complex(Half(-3), Half(1))}

MapLowerRights ==
    {Complex(R(1), R(-1)), Complex(R(0), R(0)), Complex(Half(1), Half(-3))}

InitMap ==
    /\ MainIdle
    /\ \E b \in MapBounds, ul \in MapUpperLefts, lr \in MapLowerRights :
          \E p \in MapPixels(b) :
             call = [fn |-> "pixel_to_complex", args |-> <<b, p, ul, lr>>,
                     result |-> None]

CallPixelToComplex ==
    /\ call.fn = "pixel_to_complex"
    /\ call.result = None
    /\ call' = [call EXCEPT !.result =
                   Some(pixel_to_complex(call.args[1], call.args[2],
                                         call.args[3], call.args[4]))]
    /\ UNCHANGED mainVars

NextMap == CallPixelToComplex

SpecMap == InitMap /\ [][NextMap]_vars

EscPoints ==
    {Complex(Half(a), Half(b)) :
        a \in (-MaxCoord) .. MaxCoord, b \in (-MaxCoord) .. MaxCoord}

InitEsc ==
    /\ MainIdle
    /\ \E c \in EscPoints, limit \in 0 .. MaxLimit :
          call = [fn |-> "escape_time", args |-> <<c, limit>>, result |-> None]

CallEscapeTime ==
    /\ call.fn = "escape_time"
    /\ call.result = None
    /\ call' = [call EXCEPT !.result =
                   Some(escape_time(call.args[1], call.args[2]))]
    /\ UNCHANGED mainVars

NextEsc == CallEscapeTime

SpecEsc == InitEsc /\ [][NextEsc]_vars

(***************************************************************************)
(* Properties of the scheduler (specification Spec).                       *)
(***************************************************************************)
AllSpawned == pc # "spawn" /\ Len(worker) = NumStripes

Complete == AllSpawned /\ \A i \in 1 .. Len(worker) : worker[i].st = "done"

RowsOf(i) == top(i) .. (top(i) + height(i) - 1)

LastStripe == NumStripes - 1

\* C1: the stripes cut by chunks_mut, stripe i starting at row
\* top(i) = i * rows_per_stripe with height(i) = len / width rows, cover the
\* rows 0 .. height-1 with every row in exactly one stripe, and the last
\* stripe has between 1 and rows_per_stripe rows.
StripesPartitionRows ==
    /\ NumStripes >= 1
    /\ \A i \in StripeIds :
          /\ RowsOf(i) \subseteq 0 .. (bounds[2] - 1)
          /\ Stripe(i).start = top(i) * bounds[1]
    /\ \A r \in 0 .. (bounds[2] - 1) :
          Cardinality({i \in StripeIds : r \in RowsOf(i)}) = 1
    /\ height(LastStripe) \in 1 .. rows_per_stripe
    /\ \A i \in 1 .. Len(worker) :
          /\ worker[i].stripe = Stripe(i - 1)
          /\ worker[i].bounds[2] = height(i - 1)

ShortLastStripeSpawned ==
    /\ AllSpawned
    /\ NumStripes >= 3
    /\ worker[NumStripes].bounds[2] < rows_per_stripe
    /\ worker[NumStripes].bounds[2] >= 1

\* The least n with n * d >= a, for d >= 1 and a >= 0.
CeilDiv(a, d) == CHOOSE n \in 0 .. a : n * d >= a /\ (n = 0 \/ (n - 1) * d < a)

\* C2 as stated: rows_per_stripe equals ceil(height / T).
RowsPerStripeIsCeil == rows_per_stripe = CeilDiv(bounds[2], threads)

\* C2 amended: rows_per_stripe is floor(height / T) + 1, the least integer
\* strictly greater than height / T; it equals ceil(height / T) when T does
\* not divide height and ceil(height / T) + 1 when T divides height.
RowsPerStripeIsFloorPlusOne ==
    /\ rows_per_stripe * threads > bounds[2]
    /\ (rows_per_stripe - 1) * threads <= bounds[2]
    /\ rows_per_stripe = CeilDiv(bounds[2], threads)
                           + (IF bounds[2] % threads = 0 THEN 1 ELSE 0)
    /\ \A i \in 1 .. Len(worker) :
          worker[i].stripe.len <= rows_per_stripe * bounds[1]

DivisibleHeightSpawned ==
    /\ bounds[2] = 4
    /\ threads = 2
    /\ AllSpawned
    /\ worker[1].bounds[2] = 3
    /\ worker[2].bounds[2] = 1

\* C3 as stated: the number of stripes, and of spawned workers once the
\* spawning loop has ended, equals the worker count T.
OneStripePerThread ==
    /\ NumStripes = threads
    /\ (pc # "spawn" => Len(worker) = threads)

\* C4: write_image starts only after every stripe's worker has been spawned
\* and has terminated.
JoinBeforeWrite ==
    (pc \in {"write", "done"} \/ sink # None) =>
        /\ Len(worker) = NumStripes
        /\ \A i \in 1 .. Len(worker) : Terminated(worker[i])

WrittenAfterJoin ==
    /\ sink # None
    /\ Len(worker) >= 3
    /\ \A i \in 1 .. Len(worker) : worker[i].st = "done"

\* C5: no pixel index is ever written twice or by two workers, a written
\* index was written by the worker of its stripe, and in a complete render
\* every index of the buffer has been written exactly once.
OwnerOf(k) == k \div chunk_size

EveryPixelWrittenOnce ==
    /\ \A k \in DOMAIN writers :
          /\ Len(writers[k]) <= 1
          /\ Len(writers[k]) = 1 => writers[k][1] = OwnerOf(k)
    /\ Complete =>
          /\ DOMAIN writers = 0 .. (BufferLen - 1)
          /\ \A k \in DOMAIN writers : Len(writers[k]) = 1

CompleteRenderByThree ==
    /\ Complete
    /\ pc = "write"
    /\ bounds[1] = 2
    /\ {writers[k][1] : k \in DOMAIN writers} = {0, 1, 2}

\* C6: for every stripe, mapping a local pixel with the stripe's bounds and
\* corners gives the point that mapping the global pixel (col, top + row)
\* with the global bounds and viewport gives; the finished buffer, and the
\* one write_image receives, is the buffer of a single render of the whole
\* image, whatever the worker count.
GlobalPoint(k) ==
    pixel_to_complex(bounds, <<k % bounds[1], k \div bounds[1]>>,
                     upper_left, lower_right)

ReferenceBuffer == [k \in 0 .. (BufferLen - 1) |-> Intensity(GlobalPoint(k))]

RenderDeterminism ==
    /\ \A i \in 1 .. Len(worker) :
          \A col \in 0 .. (worker[i].bounds[1] - 1),
             row \in 0 .. (worker[i].bounds[2] - 1) :
             pixel_to_complex(worker[i].bounds, <<col, row>>,
                              worker[i].upper_left, worker[i].lower_right)
               = pixel_to_complex(bounds, <<col, top(i - 1) + row>>,
                                  upper_left, lower_right)
    /\ Complete => pixels_buffer = ReferenceBuffer
    /\ sink # None => sink = Some(ReferenceBuffer)

SameImageFromThreeStripes ==
    /\ sink = Some(ReferenceBuffer)
    /\ Len(worker) = 3
    /\ threads = 3
    /\ worker[3].bounds[2] < worker[1].bounds[2]
    /\ Cardinality({pixels_buffer[k] : k \in DOMAIN pixels_buffer}) >= 3

\* C7: once a worker has panicked write_image is never called; main aborts
\* without a written image only at the join, after every worker has been
\* spawned and has terminated and one of them panicked; write_image
\* receives the buffer only when every worker is done and every pixel is
\* written.
AnyPanicked == \E i \in 1 .. Len(worker) : worker[i].st = "panicked"

AllOrNothing ==
    /\ AnyPanicked => sink = None /\ pc \in {"spawn", "join", "aborted"}
    /\ (pc = "aborted" /\ sink = None) =>
          AllSpawned /\ AllJoined /\ AnyPanicked
    /\ sink # None =>
          /\ Complete
          /\ \A k \in 0 .. (BufferLen - 1) : Len(writers[k]) = 1

AbandonedPartialRender ==
    /\ pc = "aborted"
    /\ sink = None
    /\ AnyPanicked
    /\ \E i \in 1 .. Len(worker) : worker[i].st = "done"
    /\ \E k \in DOMAIN writers : Len(writers[k]) = 0

\* C10: every stripe handed to a worker has a length that is a multiple of
\* the width and equals width * (len / width), render's precondition holds
\* for it, and no worker panics on the assertion.
PreconditionHolds ==
    \A i \in 1 .. Len(worker) :
       /\ worker[i].stripe.len % bounds[1] = 0
       /\ worker[i].stripe.len = bounds[1] * (worker[i].stripe.len \div bounds[1])
       /\ Precondition(worker[i])
       /\ worker[i].cause # "assert"

ShortStripePassedAssert ==
    /\ Len(worker) = NumStripes
    /\ NumStripes >= 2
    /\ worker[NumStripes].stripe.len < chunk_size
    /\ worker[NumStripes].st = "rendering"

(***************************************************************************)
(* Properties of the pure functions (specifications SpecMap and SpecEsc).  *)
(***************************************************************************)
MapReturned == call.fn = "pixel_to_complex" /\ call.result # None

\* C8: pixel_to_complex interpolates linearly between the corners,
\* width * re = (width - col) * upper_left.re + col * lower_right.re and
\* height * im = (height - row) * upper_left.im + row * lower_right.im;
\* pixel (0, 0) maps to upper_left, pixel (width, height) to lower_right,
\* and bounds (100, 100), pixel (25, 75), corners (-1, 1) and (1, -1) give
\* (-1/2, -1/2).
MapperInterpolates ==
    MapReturned =>
        LET b == call.args[1]
            p == call.args[2]
            ul == call.args[3]
            lr == call.args[4]
            r == call.result[1]
        IN  /\ RMul(R(b[1]), r.re)
                 = RAdd(RMul(R(b[1] - p[1]), ul.re), RMul(R(p[1]), lr.re))
            /\ RMul(R(b[2]), r.im)
                 = RAdd(RMul(R(b[2] - p[2]), ul.im), RMul(R(p[2]), lr.im))
            /\ p = <<0, 0>> => r = ul
            /\ p = b => r = lr
            /\ ( /\ b = TestBounds
                 /\ p = TestPixel
                 /\ ul = Complex(R(-1), R(1))
                 /\ lr = Complex(R(1), R(-1)) )
               => r = Complex(Half(-1), Half(-1))

TestPixelMapped ==
    /\ call.fn = "pixel_to_complex"
    /\ call.args = <<TestBounds, TestPixel, Complex(R(-1), R(1)),
                     Complex(R(1), R(-1))>>
    /\ call.result = Some(Complex(<<-1, 2>>, <<-1, 2>>))

\* z after k updates z <- z*z + c from z = 0.
RECURSIVE Orbit(_, _)
Orbit(c, k) ==
    IF k = 0
    THEN Complex(R(0), R(0))
    ELSE Only({CAdd(CMul(z, z), c) : z \in {Orbit(c, k - 1)}})

OutsideAfter(c, k) ==
    LET n == norm_sqr(Orbit(c, k)) IN n[1] > 4 * n[2]

EscReturned == call.fn = "escape_time" /\ call.result # None

\* C9: escape_time(c, limit) returns Some(i) for the first index i in
\* 0 .. limit-1 such that |z|^2 > 4 after update i, and None when there is no
\* such index; limit = 0 gives None, and |c| > 2 with limit >= 1 gives
\* Some(0).
EscapeTimeFirstIndex ==
    EscReturned =>
        LET c == call.args[1]
            limit == call.args[2]
            r == call.result[1]
        IN  /\ r # None =>
                  /\ r[1] \in 0 .. (limit - 1)
                  /\ OutsideAfter(c, r[1] + 1)
                  /\ \A j \in 0 .. (r[1] - 1) : ~OutsideAfter(c, j + 1)
            /\ r = None => \A j \in 0 .. (limit - 1) : ~OutsideAfter(c, j + 1)
            /\ limit = 0 => r = None
            /\ (limit >= 1 /\ RGt(norm_sqr(c), R(4))) => r = Some(0)

EscapedAtSecondIndex ==
    /\ EscReturned
    /\ call.args[1] = Complex(R(1), R(0))
    /\ call.args[2] = 3
    /\ call.result = Some(Some(2))

====
